---- MODULE Spec2Model ----
\* A model of DCapture (src/src/DCapture.js) and of its encoders: the capture
\* session controller, the archive (tar) encoder with its PNG and JPEG
\* adapters, the Whammy (software WebM) encoder, the MediaRecorder encoder and
\* the GIF encoder.  One action per public operation, per promise job and per
\* platform callback.
EXTENDS Integers, Sequences, FiniteSets, TLC

\* ------------------------------------------------------------------ bounds
MaxCaptures == 2      \* capture() calls made over the life of one session
MaxTime == 1          \* the clock readings are ClockBase..ClockBase + MaxTime seconds
MaxJobs == 1          \* stop() chains a caller's stop() may find queued
MaxDelivered == 1     \* artifacts handed to callbacks or to download()
MaxChunks == 1        \* timeslice chunks a native recorder hands over
MaxAutoSaved == 3     \* capture() calls of a session with auto-save and download()
MaxHandlers == 2      \* on() registrations made on one encoder
MaxPending == 2       \* unresolved stop() promises a caller's stop() may find

MaxBlobs == 4         \* add(blob) calls made on an archive encoder on its own
MaxReading == 2       \* blobs such an encoder is reading at one time

\* Date.now() counts milliseconds; the model's clock counts seconds, from
\* ClockBase (the seconds since the epoch when the page loads, DCapture.js:14).
MsPerSecond == 1000

ClockBase == 10

\* ------------------------------------------------------------ configuration
Formats == {"png", "jpg", "webm", "webm-mediarecorder", "gif"}

TarFormats == {"png", "jpg"}

\* The formats the frame limit is checked with: the two WebM encoders, one
\* whose stop() does nothing and one whose stop() returns a Promise.
\* capture() does not look at the format.
LimitFormats == {"webm", "webm-mediarecorder"}

\* The format the motion blur and the time limit are checked with.
MotionBlurFormat == "webm"

\* The format the auto-save rotation of the archive encoder is checked with
\* (the PNG and JPEG adapters share DCTarEncoder.add).
AutoSaveFormat == "png"

\* The settings a session is checked with (DCapture.js:39-54 merges the
\* caller's values over the defaults).
SettingsSpace ==
    {s \in [format : Formats,
            framerate : {1},
            motionBlurFrames : {0, 2},
            timeLimit : {0, 1},
            frameLimit : {0, 1},
            autoSaveTime : {0, 1}] :
        /\ s.frameLimit > 0 => s.format \in LimitFormats
        /\ (s.motionBlurFrames > 0 \/ s.timeLimit > 0)
              => s.format = MotionBlurFormat
        /\ s.autoSaveTime > 0 => s.format = AutoSaveFormat}

\* The platform: lib says that the backend of the format is present (the
\* globals Tar, Whammy, GIF, MediaRecorder), download that the global download
\* function is.
EnvSpace == [lib : BOOLEAN, download : BOOLEAN]

NoCallback == "undefined"

\* The receiver of an archive part the rotation serialized and could not hand
\* to download(): nobody.
Dropped == "dropped"

Callbacks == {"cb", NoCallback}

VARIABLES
    settings,     \* DCapture.settings, shared with the encoder
    env,          \* the globals of the page
    now,          \* the time of the last start() or capture(), in seconds
    cap,          \* the DCapture instance: startTime, frames, stopped, encoder
    enc,          \* the encoder instance (its fields depend on the format)
    jobs,         \* the promise job queue
    conv,         \* canvas.toBlob conversions in flight (frame ids)
    reads,        \* FileReader reads in flight (frame ids)
    last,         \* the handler that ran last: op, arg, threw, err, calls
    nextId,       \* capture() calls made so far; a call's frame carries its number
    capt,         \* frames given to capture() since the last start()
    adds,         \* frames given to encoder.add() since the last start()
    started,      \* start() was called on a session that has an encoder
    delivered,    \* artifacts serialized by a save, and who got them: [to, art]
    auto,         \* automatic stops and saves: [stops, saves]
    stopDone,     \* a promise returned by a caller's stop() has resolved
    hist          \* what the caller did so far: [phase, failed, overlap]; for an
                  \* encoder on its own, the on() calls made

vars == <<settings, env, now, cap, enc, jobs, conv, reads, last, nextId, capt,
          adds, started, delivered, auto, stopDone, hist>>

\* ------------------------------------------------------------------ helpers
\* The outcome of one encoder method: the encoder after it, whether it threw,
\* whether it emitted an error event, the conversions or reads it began, the
\* artifacts it handed over, and whether it returned a Promise.
Eff(e) ==
    [enc |-> e, threw |-> FALSE, err |-> FALSE, begun |-> {}, out |-> <<>>,
     promise |-> FALSE]

\* One artifact handed to a caller's callback.
Handed(cb, a) == [to |-> cb, part |-> 0, art |-> a]

Digits(n) ==
    LET RECURSIVE D(_)
        D(k) == IF k < 10 THEN <<k>> ELSE Append(D(k \div 10), k % 10)
    IN D(n)

Zeros(k) == [i \in 1..k |-> 0]

\* pad without the zeros in front.
pad_NoZeros(n) == Digits(n)

\* pad(n, width = 6): the decimal digits of n, with zeros in front up to width.
pad(n) ==
    LET s == Digits(n)
    IN IF Len(s) >= 6 THEN s ELSE Zeros(6 - Len(s)) \o s

fileExtension(fmt) == IF fmt = "png" THEN ".png" ELSE ".jpg"

\* The events the controller subscribes to when it creates the encoder
\* (attachEncoderEvents, DCapture.js:119-133).  An encoder keeps its
\* subscriptions in eventListeners; the dispose() of each concrete encoder
\* overrides the base dispose(), the only code that empties it, and does not
\* call it.
Attached == {"progress", "error"}

\* ------------------------------------------------------- DCTarEncoder
NoTape == [live |-> FALSE, files |-> <<>>]

NewTar == [live |-> TRUE, files |-> <<>>]

TarInit == [tape |-> NoTape, count |-> 0, part |-> 1, frames |-> 0,
            eventListeners |-> Attached]

\* dispose(): try { tape = new Tar(); count = 0 } catch { emit error }
TarDispose(e, ev) ==
    IF ev.lib
    THEN [Eff(e) EXCEPT !.enc = [e EXCEPT !.tape = NewTar, !.count = 0]]
    ELSE [Eff(e) EXCEPT !.err = TRUE]

\* start(): this.dispose()
TarStart(e, ev) == TarDispose(e, ev)

\* save(callback): no tape -> error event; else callback(tape.save()).
TarSave(e, cb) ==
    IF ~e.tape.live
    THEN [Eff(e) EXCEPT !.err = TRUE]
    ELSE IF cb = NoCallback
         THEN [Eff(e) EXCEPT !.threw = TRUE]
         ELSE [Eff(e) EXCEPT !.out = <<Handed(cb, e.tape.files)>>]

\* PNG / JPEG add(canvas): try { canvas.toBlob(...) } catch { emit error }
ImageAdd(e, id, fail) ==
    IF fail
    THEN [Eff(e) EXCEPT !.err = TRUE]
    ELSE [Eff(e) EXCEPT !.begun = {id}]

\* The condition of the auto-save rotation (DCTarEncoder.js:43-46).
AutoSaveDue(e, st) ==
    st.autoSaveTime > 0 /\ e.frames >= st.autoSaveTime * st.framerate

\* Rotate that hands the part over and goes on with the same tape.
Rotate_KeepsTape(e, ev) ==
    [Eff([e EXCEPT !.count = @ + 1, !.part = @ + 1, !.frames = 0])
     EXCEPT !.err = ~ev.download,
            !.out = <<[to |-> IF ev.download THEN "download" ELSE Dropped,
                       part |-> e.part, art |-> e.tape.files]>>]

\* The callback the rotation passes to save (DCTarEncoder.js:47-65): download
\* the part, start a new tape, keep counting names, next part.
Rotate(e, ev) ==
    LET d == TarDispose(e, ev)
    IN [d EXCEPT !.enc = [d.enc EXCEPT !.count = e.count + 1,
                                       !.part = e.part + 1,
                                       !.frames = 0],
                 !.err = d.err \/ ~ev.download,
                 !.out = <<[to |-> IF ev.download THEN "download" ELSE Dropped,
                            part |-> e.part, art |-> e.tape.files]>>]

\* TarOnload that forgets this.count++.
TarOnload_KeepsCount(e, st, ev, id) ==
    IF ~e.tape.live
    THEN [Eff(e) EXCEPT !.threw = TRUE]
    ELSE LET entry == [name |-> pad(e.count), ext |-> fileExtension(st.format),
                       data |-> id]
             e1 == [e EXCEPT !.tape.files = Append(@, entry)]
         IN IF AutoSaveDue(e1, st)
            THEN Rotate(e1, ev)
            ELSE Eff([e1 EXCEPT !.frames = @ + 1])

\* TarOnload that names the entry after the frame, not after the count of the
\* entries appended so far.
TarOnload_NamesByFrame(e, st, ev, id) ==
    IF ~e.tape.live
    THEN [Eff(e) EXCEPT !.threw = TRUE]
    ELSE LET entry == [name |-> pad(id), ext |-> fileExtension(st.format),
                       data |-> id]
             e1 == [e EXCEPT !.tape.files = Append(@, entry)]
         IN IF AutoSaveDue(e1, st)
            THEN Rotate(e1, ev)
            ELSE Eff([e1 EXCEPT !.count = @ + 1, !.frames = @ + 1])

\* fileReader.onload of add(blob) (DCTarEncoder.js:40-71).
TarOnload(e, st, ev, id) ==
    IF ~e.tape.live
    THEN [Eff(e) EXCEPT !.threw = TRUE]
    ELSE LET entry == [name |-> pad(e.count), ext |-> fileExtension(st.format),
                       data |-> id]
             e1 == [e EXCEPT !.tape.files = Append(@, entry)]
         IN IF AutoSaveDue(e1, st)
            THEN Rotate(e1, ev)
            ELSE Eff([e1 EXCEPT !.count = @ + 1, !.frames = @ + 1])

\* ------------------------------------------------------- DCWhammyEncoder
\* encoder: a Whammy.Video exists; video: the frames it holds.
WhammyInit == [encoder |-> FALSE, frameCount |-> 0, video |-> <<>>,
               eventListeners |-> Attached]

\* start(): try { encoder = new Whammy.Video(); frameCount = 0 } catch { error }
WhammyStart(e, fail) ==
    IF fail
    THEN [Eff(e) EXCEPT !.err = TRUE]
    ELSE Eff([e EXCEPT !.encoder = TRUE, !.frameCount = 0, !.video = <<>>])

\* WhammyAdd without its try/catch: the backend's exception escapes.
WhammyAdd_NoCatch(e, id, fail) ==
    IF ~e.encoder
    THEN Eff(e)
    ELSE IF fail
         THEN [Eff(e) EXCEPT !.threw = TRUE]
         ELSE Eff([e EXCEPT !.video = Append(@, id), !.frameCount = @ + 1])

\* add(canvas): no encoder -> return; try { encoder.add; frameCount++ } catch
WhammyAdd(e, id, fail) ==
    IF ~e.encoder
    THEN Eff(e)
    ELSE IF fail
         THEN [Eff(e) EXCEPT !.err = TRUE]
         ELSE Eff([e EXCEPT !.video = Append(@, id), !.frameCount = @ + 1])

\* stop(): nothing to do.
WhammyStop(e) == Eff(e)

\* save(callback): no encoder -> error; try { compile; if (callback) callback }
WhammySave(e, cb, fail) ==
    IF ~e.encoder \/ fail
    THEN [Eff(e) EXCEPT !.err = TRUE]
    ELSE IF cb = NoCallback
         THEN Eff(e)
         ELSE [Eff(e) EXCEPT !.out = <<Handed(cb, e.video)>>]

\* dispose(): encoder = null; frameCount = 0
WhammyDispose(e) ==
    Eff([e EXCEPT !.encoder = FALSE, !.frameCount = 0, !.video = <<>>])

\* ------------------------------------------------------- DCGIFEncoder
\* encoder: the GIF object (live, the frames added, running a render, the
\* callbacks save() subscribed to its finished event); savedBlob: the cached
\* artifact; orphans: renders still running on GIF objects start() replaced.
NoGif == [live |-> FALSE, frames |-> <<>>, running |-> FALSE, waiting |-> <<>>]

NewGif == [live |-> TRUE, frames |-> <<>>, running |-> FALSE, waiting |-> <<>>]

NoBlob == [set |-> FALSE, frames |-> <<>>]

GifInit == [encoder |-> NoGif, savedBlob |-> NoBlob, sizeSet |-> FALSE,
            orphans |-> {}, eventListeners |-> Attached]

\* start(): try { GIF undefined -> throw; encoder = new GIF; sizeSet = false }
\* catch { error }.  savedBlob is left as it is.
GifStart(e, ev, fail) ==
    IF ~ev.lib \/ fail
    THEN [Eff(e) EXCEPT !.err = TRUE]
    ELSE Eff([e EXCEPT !.encoder = NewGif, !.sizeSet = FALSE,
                       !.orphans = IF e.encoder.running
                                   THEN @ \cup {e.encoder} ELSE @])

\* add(inputCanvas): no encoder -> return; try { size; draw; addFrame } catch
GifAdd(e, id, fail) ==
    IF ~e.encoder.live
    THEN Eff(e)
    ELSE IF fail
         THEN [Eff([e EXCEPT !.sizeSet = TRUE]) EXCEPT !.err = TRUE]
         ELSE Eff([e EXCEPT !.sizeSet = TRUE,
                            !.encoder.frames = Append(@, id)])

\* stop(): no encoder -> return; try { encoder.render() } catch { error }.
\* render() throws when a render is already running.
GifStop(e, fail) ==
    IF ~e.encoder.live
    THEN Eff(e)
    ELSE IF fail \/ e.encoder.running
         THEN [Eff(e) EXCEPT !.err = TRUE]
         ELSE Eff([e EXCEPT !.encoder.running = TRUE])

\* GifSave without its look at the cached blob: it always subscribes.
GifSave_AlwaysSubscribes(e, cb) ==
    IF ~e.encoder.live
    THEN [Eff(e) EXCEPT !.threw = TRUE]
    ELSE Eff([e EXCEPT !.encoder.waiting = Append(@, cb)])

\* save(callback): cached blob -> callback(blob); else encoder.on('finished').
GifSave(e, cb) ==
    IF e.savedBlob.set
    THEN IF cb = NoCallback
         THEN [Eff(e) EXCEPT !.threw = TRUE]
         ELSE [Eff(e) EXCEPT !.out = <<Handed(cb, e.savedBlob.frames)>>]
    ELSE IF ~e.encoder.live
         THEN [Eff(e) EXCEPT !.threw = TRUE]
         ELSE Eff([e EXCEPT !.encoder.waiting = Append(@, cb)])

\* dispose(): encoder.abort(); encoder, savedBlob = null; sizeSet = false
GifDispose(e) ==
    Eff([e EXCEPT !.encoder = NoGif, !.savedBlob = NoBlob, !.sizeSet = FALSE])

\* The finished event of a GIF object g with the rendered blob: the adapter's
\* own handler (emit finished, cache the blob), then the callbacks save() added.
GifFinished(e, g) ==
    LET toCall == SelectSeq(g.waiting, LAMBDA c : c # NoCallback)
    IN [Eff([e EXCEPT !.savedBlob = [set |-> TRUE, frames |-> g.frames]])
        EXCEPT !.out = [i \in 1..Len(toCall) |-> Handed(toCall[i], g.frames)],
               !.threw = \E i \in 1..Len(g.waiting) : g.waiting[i] = NoCallback]

\* ------------------------------------------------------- DCMediaRecorderEncoder
\* recorder: the MediaRecorder (live, its state, the stop() chain its onstop
\* resolves and whether that chain was rejected already, a stop event on its
\* way); chunks: the data received; unresolved: the promises stop() returned
\* that have not resolved; lostRecorder, lostStream: a recorder still
\* recording, a stream with
\* running tracks, that start() replaced; late: the onstop handlers of the
\* replaced recorders whose stop event is on its way.
NoOnstop == [set |-> FALSE, auto |-> FALSE, rejected |-> FALSE]

NoRecorder == [live |-> FALSE, state |-> "inactive", onstop |-> NoOnstop,
               stopping |-> FALSE]

NewRecorder == [live |-> TRUE, state |-> "recording", onstop |-> NoOnstop,
                stopping |-> FALSE]

RecInit(ev) == [supported |-> ev.lib, recorder |-> NoRecorder, chunks |-> <<>>,
                firstFrame |-> TRUE, stream |-> FALSE, unresolved |-> 0,
                lostRecorder |-> FALSE, lostStream |-> FALSE,
                late |-> {}, eventListeners |-> Attached]

\* RecStart without its check of this.supported.
RecStart_NoSupportCheck(e, fail) ==
    IF fail
    THEN [Eff([e EXCEPT !.stream = TRUE,
                        !.lostStream = @ \/ e.stream]) EXCEPT !.err = TRUE]
    ELSE Eff([e EXCEPT !.stream = TRUE,
                       !.lostStream = @ \/ e.stream,
                       !.lostRecorder =
                           @ \/ (e.recorder.live /\ e.recorder.state = "recording"),
                       !.late = IF e.recorder.live /\ e.recorder.stopping
                                THEN @ \cup {e.recorder.onstop} ELSE @,
                       !.recorder = NewRecorder,
                       !.chunks = <<>>])

\* start(): unsupported -> error; try { canvas, stream; recorder = new
\* MediaRecorder; chunks = []; recorder.start(100) } catch { error }.  The
\* canvas, the stream and the recorder are new ones; those in the fields are
\* neither stopped nor kept.  firstFrame is left as it is.
RecStart(e, fail) ==
    IF ~e.supported
    THEN [Eff(e) EXCEPT !.err = TRUE]
    ELSE IF fail
         THEN [Eff([e EXCEPT !.stream = TRUE,
                             !.lostStream = @ \/ e.stream]) EXCEPT !.err = TRUE]
         ELSE Eff([e EXCEPT !.stream = TRUE,
                            !.lostStream = @ \/ e.stream,
                            !.lostRecorder =
                                @ \/ (e.recorder.live
                                        /\ e.recorder.state = "recording"),
                            !.late = IF e.recorder.live /\ e.recorder.stopping
                                     THEN @ \cup {e.recorder.onstop} ELSE @,
                            !.recorder = NewRecorder,
                            !.chunks = <<>>])

\* add(inputCanvas): unsupported or no recorder -> return; try { first frame
\* sizes the canvas; drawImage } catch { error }
RecAdd(e, fail) ==
    IF ~e.supported \/ ~e.recorder.live
    THEN Eff(e)
    ELSE IF fail
         THEN [Eff([e EXCEPT !.firstFrame = FALSE]) EXCEPT !.err = TRUE]
         ELSE Eff([e EXCEPT !.firstFrame = FALSE])

\* stop(): unsupported or no recorder -> return undefined; else a Promise that
\* sets recorder.onstop and calls recorder.stop().  On an inactive recorder
\* recorder.stop() either throws (rejecting the promise) or does nothing,
\* as the platform has it (fail).
RecStop(e, chain, fail) ==
    IF ~e.supported \/ ~e.recorder.live
    THEN Eff(e)
    ELSE LET e1 == [e EXCEPT !.recorder.onstop =
                                 [set |-> TRUE, auto |-> chain,
                                  rejected |-> e.recorder.state = "inactive" /\ fail],
                             !.unresolved = @ + 1]
         IN IF e.recorder.state = "inactive"
            THEN [Eff(e1) EXCEPT !.threw = fail, !.promise = TRUE]
            ELSE [Eff([e1 EXCEPT !.recorder.state = "inactive",
                                 !.recorder.stopping = TRUE])
                  EXCEPT !.promise = TRUE]

\* RecSave without its look at the number of chunks.
RecSave_NoChunkCheck(e, cb) ==
    IF ~e.supported \/ ~e.recorder.live \/ cb = NoCallback
    THEN [Eff(e) EXCEPT !.err = TRUE]
    ELSE [Eff(e) EXCEPT !.out = <<Handed(cb, e.chunks)>>]

\* save(callback): unsupported or no recorder -> error; try { no chunks ->
\* error; callback(new Blob(chunks)) } catch { error }
RecSave(e, cb) ==
    IF ~e.supported \/ ~e.recorder.live
    THEN [Eff(e) EXCEPT !.err = TRUE]
    ELSE IF e.chunks = <<>> \/ cb = NoCallback
         THEN [Eff(e) EXCEPT !.err = TRUE]
         ELSE [Eff(e) EXCEPT !.out = <<Handed(cb, e.chunks)>>]

\* dispose(): stop an active recorder, stop the tracks, clear the fields.
\* The onstop handlers still to run find this.recorder null, and throw.
RecDispose(e) ==
    Eff([e EXCEPT !.recorder = NoRecorder, !.stream = FALSE, !.chunks = <<>>,
                  !.firstFrame = TRUE, !.late = {}])

\* ------------------------------------------------------- encoder dispatch
\* createEncoder(): one encoder per session, chosen by settings.format.
EncInit(st, ev) ==
    CASE st.format \in TarFormats -> TarInit
      [] st.format = "webm" -> WhammyInit
      [] st.format = "gif" -> GifInit
      [] OTHER -> RecInit(ev)

EncStart(e, st, ev, fail) ==
    CASE st.format \in TarFormats -> TarStart(e, ev)
      [] st.format = "webm" -> WhammyStart(e, fail)
      [] st.format = "gif" -> GifStart(e, ev, fail)
      [] OTHER -> RecStart(e, fail)

EncAdd(e, st, id, fail) ==
    CASE st.format \in TarFormats -> ImageAdd(e, id, fail)
      [] st.format = "webm" -> WhammyAdd(e, id, fail)
      [] st.format = "gif" -> GifAdd(e, id, fail)
      [] OTHER -> RecAdd(e, fail)

\* The archive encoders inherit the base stop(), which only sets a state field.
EncStop(e, st, chain, fail) ==
    CASE st.format \in TarFormats -> Eff(e)
      [] st.format = "webm" -> WhammyStop(e)
      [] st.format = "gif" -> GifStop(e, fail)
      [] OTHER -> RecStop(e, chain, fail)

EncSave(e, st, cb, fail) ==
    CASE st.format \in TarFormats -> TarSave(e, cb)
      [] st.format = "webm" -> WhammySave(e, cb, fail)
      [] st.format = "gif" -> GifSave(e, cb)
      [] OTHER -> RecSave(e, cb)

EncDispose(e, st, ev) ==
    CASE st.format \in TarFormats -> TarDispose(e, ev)
      [] st.format = "webm" -> WhammyDispose(e)
      [] st.format = "gif" -> GifDispose(e)
      [] OTHER -> RecDispose(e)

\* ------------------------------------------------------- DCapture
\* The handler that ran last: the operation or callback, its argument, whether
\* it threw, whether an error event was emitted, and the encoder methods the
\* controller called in it.
Ran(op, arg, threw, err, calls) ==
    [op |-> op, arg |-> arg, threw |-> threw, err |-> err, calls |-> calls]

Called(m, a) == [m |-> m, arg |-> a]

None == "none"

\* One stop() chain in the job queue: k = "A" calls encoder.stop(), k = "B" is
\* the second then() of stop(), k = "S" the then(() => this.save()) of capture.
Job(k, a) == [k |-> k, auto |-> a]

\* Date.now() at second t.
DateNow(t) == t * MsPerSecond

\* duration = (Date.now() - startTime) / 1000; duration >= timeLimit
TimeLimitReached(c, st, t) ==
    st.timeLimit > 0 /\ DateNow(t) - c.startTime >= st.timeLimit * MsPerSecond

\* frames >= frameLimit
FrameLimitReached(c, st) ==
    st.frameLimit > 0 /\ c.frames >= st.frameLimit

\* The this.stop().then(() => this.save()) chains one capture() call begins,
\* c being the instance after frames++ (DCapture.js:272-297).
StopsOfCapture(c, st, t) ==
    IF st.motionBlurFrames > 1
    THEN <<>>
    ELSE (IF TimeLimitReached(c, st, t) THEN <<Job("A", TRUE)>> ELSE <<>>)
         \o (IF FrameLimitReached(c, st) THEN <<Job("A", TRUE)>> ELSE <<>>)

\* capture without its check of the stopped flag.
CaptureIgnored_Never(c) == FALSE

\* capture(canvas) returns at once: the session is stopped.
CaptureIgnored(c) == c.stopped

\* capture(canvas) throws: no encoder.
CaptureThrows(c) == ~c.encoder

\* A frame counted twice (in capture and in the motion blur path).
Counted_Twice(c) == [c EXCEPT !.frames = @ + 2]

\* this.frames++
Counted(c) == [c EXCEPT !.frames = @ + 1]

\* save without its check of the encoder.
SaveThrows_Never(c) == FALSE

\* save(callback) throws: no encoder.
SaveThrows(c) == ~c.encoder

\* The capture() calls the model follows a session for.
CaptureBound(st, ev) ==
    IF st.autoSaveTime > 0 /\ ev.download THEN MaxAutoSaved ELSE MaxCaptures

\* new DCapture(settings) throws: the constructor of DCWhammyEncoder throws
\* when the global Whammy is missing (DCTarEncoder.js:129-132).
ConstructorThrows(st, ev) == st.format = "webm" /\ ~ev.lib

\* There is a session to call: its construction did not throw.
Built == ~ConstructorThrows(settings, env)

\* The round trip the caller is on: new -start-> started -stop-> stopped
\* -save(cb)-> saved, with capture() calls once started; any other call of a
\* public operation leaves the round trip ("off").
Phase(ph, l) ==
    CASE l.op = "start" -> IF ph = "new" THEN "started" ELSE "off"
      [] l.op = "capture" -> IF ph = "new" THEN "off" ELSE ph
      [] l.op = "stop" -> IF ph = "started" THEN "stopped" ELSE "off"
      [] l.op = "save" -> IF ph = "stopped" /\ l.arg = "cb" THEN "saved" ELSE "off"
      [] l.op = "dispose" -> "off"
      [] OTHER -> ph

OffTrip == [phase |-> "off", failed |-> TRUE, overlap |-> FALSE]

\* The history after the handler l: the phase of the round trip, whether
\* any handler so far threw or emitted an error event (not followed once the
\* round trip is left), and whether capture() handed a frame to the encoder
\* while a conversion or a read of an earlier frame was still in flight.
After(h, l) ==
    IF Phase(h.phase, l) = "off"
    THEN OffTrip
    ELSE [phase |-> Phase(h.phase, l),
          failed |-> h.failed \/ l.threw \/ l.err,
          overlap |-> h.overlap \/ (l.op = "capture" /\ l.calls # <<>>
                                     /\ (conv # {} \/ reads # {}))]

Init ==
    /\ settings \in SettingsSpace
    /\ env \in EnvSpace
    /\ settings.autoSaveTime = 0 => env.download
    /\ now = ClockBase
    /\ cap = [startTime |-> 0, frames |-> 0, stopped |-> FALSE, encoder |-> TRUE]
    /\ enc = EncInit(settings, env)
    /\ hist = [phase |-> "new", failed |-> FALSE, overlap |-> FALSE]
    /\ jobs = <<>>
    /\ conv = {}
    /\ reads = {}
    /\ last = Ran("new", None, ConstructorThrows(settings, env), FALSE, <<>>)
    /\ nextId = 0
    /\ capt = <<>>
    /\ adds = <<>>
    /\ started = FALSE
    /\ delivered = <<>>
    /\ auto = [stops |-> 0, saves |-> 0]
    /\ stopDone = FALSE

\* The times of the next call: time does not run backwards.
Clock == now..(ClockBase + MaxTime)

\* StartCalls that skips the callback when the encoder reported an error.
StartCalls_NotOnError(c, cb, r) ==
    IF ~c.encoder
    THEN <<>>
    ELSE <<Called("start", None)>>
         \o (IF cb = NoCallback \/ r.err THEN <<>> ELSE <<Called("callback", cb)>>)

\* The calls start(callback) makes, in their order: encoder.start(), which
\* throws when there is no encoder; then callback(), if it is a function.
StartCalls(c, cb, r) ==
    IF ~c.encoder
    THEN <<>>
    ELSE <<Called("start", None)>>
         \o (IF cb = NoCallback THEN <<>> ELSE <<Called("callback", cb)>>)

\* start(callback) at time t.
Start ==
    \E t \in Clock, fail \in BOOLEAN, cb \in Callbacks :
        LET r == IF cap.encoder
                 THEN EncStart(enc, settings, env, fail)
                 ELSE [Eff(enc) EXCEPT !.threw = TRUE]
        IN /\ Built
           /\ now' = t
           /\ cap' = [cap EXCEPT !.startTime = DateNow(t), !.frames = 0]
           /\ enc' = r.enc
           /\ last' = Ran("start", cb, r.threw, r.err, StartCalls(cap, cb, r))
           /\ started' = (started \/ cap.encoder)
           /\ capt' = <<>>
           /\ adds' = <<>>
           /\ UNCHANGED <<settings, env, jobs, conv, reads, nextId,
                          delivered, auto, stopDone>>
           /\ hist' = After(hist, last')

\* capture(canvas) at time t; the canvas is the frame number nextId + 1.  The
\* time of the call is followed where a time limit is set.
Capture ==
    \E t \in Clock, fail \in BOOLEAN :
        LET id == nextId + 1
            c1 == Counted(cap)
            r == EncAdd(enc, settings, id, fail)
            chains == IF r.threw THEN <<>> ELSE StopsOfCapture(c1, settings, t)
        IN /\ Built
           /\ nextId < CaptureBound(settings, env)
           /\ settings.timeLimit = 0 => t = now
           /\ nextId' = id
           /\ capt' = Append(capt, id)
           /\ now' = t
           /\ IF CaptureIgnored(cap)
              THEN /\ last' = Ran("capture", id, FALSE, FALSE, <<>>)
                   /\ UNCHANGED <<cap, enc, jobs, conv, adds, auto>>
              ELSE IF CaptureThrows(cap)
              THEN /\ last' = Ran("capture", id, TRUE, FALSE, <<>>)
                   /\ UNCHANGED <<cap, enc, jobs, conv, adds, auto>>
              ELSE /\ cap' = [c1 EXCEPT !.stopped = (chains # <<>>)]
                   /\ enc' = r.enc
                   /\ conv' = conv \cup r.begun
                   /\ adds' = Append(adds, id)
                   /\ jobs' = jobs \o chains
                   /\ auto' = [auto EXCEPT !.stops = @ + Len(chains)]
                   /\ last' = Ran("capture", id, r.threw, r.err,
                                  <<Called("add", id)>>)
           /\ UNCHANGED <<settings, env, reads, started, delivered, stopDone>>
           /\ hist' = After(hist, last')

\* The artifacts handed to the caller's callbacks (not those of a rotation).
ToCaller(d) == SelectSeq(d, LAMBDA a : a.to \notin {"download", Dropped})

\* The room the model leaves for one more artifact or subscription.
Room ==
    /\ Len(ToCaller(delivered)) < MaxDelivered
    /\ settings.format = "gif" => Len(enc.encoder.waiting) < MaxDelivered

\* stop(): stopped = true, and the promise chain begins.
Stop ==
    /\ Built
    /\ Len(jobs) < MaxJobs
    /\ Room
    /\ settings.format = "webm-mediarecorder" => enc.unresolved < MaxPending
    /\ cap' = [cap EXCEPT !.stopped = TRUE]
    /\ jobs' = Append(jobs, Job("A", FALSE))
    /\ last' = Ran("stop", None, FALSE, FALSE, <<>>)
    /\ UNCHANGED <<settings, env, now, enc, conv, reads, nextId, capt, adds,
                   started, delivered, auto, stopDone>>
    /\ hist' = After(hist, last')

\* save(callback): throws without an encoder, else encoder.save(callback).
Save ==
    \E cb \in Callbacks, fail \in BOOLEAN :
        LET r == IF SaveThrows(cap)
                 THEN [Eff(enc) EXCEPT !.threw = TRUE]
                 ELSE EncSave(enc, settings, cb, fail)
        IN /\ Built
           /\ Room
           /\ enc' = r.enc
           /\ delivered' = delivered \o r.out
           /\ last' = Ran("save", cb, r.threw, r.err,
                          IF SaveThrows(cap) THEN <<>> ELSE <<Called("save", cb)>>)
           /\ UNCHANGED <<settings, env, now, cap, jobs, conv, reads, nextId,
                          capt, adds, started, auto, stopDone>>
           /\ hist' = After(hist, last')

\* dispose() that also clears the limits of the settings.
Dispose_ClearsLimits ==
    LET r == IF cap.encoder THEN EncDispose(enc, settings, env) ELSE Eff(enc)
    IN /\ Built
       /\ cap' = [cap EXCEPT !.encoder = FALSE]
       /\ enc' = r.enc
       /\ settings' = [settings EXCEPT !.timeLimit = 0, !.frameLimit = 0]
       /\ last' = Ran("dispose", None, r.threw, r.err,
                      IF cap.encoder THEN <<Called("dispose", None)>> ELSE <<>>)
       /\ UNCHANGED <<env, now, jobs, conv, reads, nextId, capt,
                      adds, started, delivered, auto, stopDone>>
       /\ hist' = After(hist, last')

\* dispose(): dispose the encoder, then forget it.
Dispose ==
    LET r == IF cap.encoder THEN EncDispose(enc, settings, env) ELSE Eff(enc)
    IN /\ Built
       /\ cap' = [cap EXCEPT !.encoder = FALSE]
       /\ enc' = r.enc
       /\ last' = Ran("dispose", None, r.threw, r.err,
                      IF cap.encoder THEN <<Called("dispose", None)>> ELSE <<>>)
       /\ UNCHANGED <<settings, env, now, jobs, conv, reads, nextId, capt,
                      adds, started, delivered, auto, stopDone>>
       /\ hist' = After(hist, last')

\* The first then() of stop(): encoder.stop(), whose Promise (if it returns
\* one) the chain waits for.  this.encoder = null makes it throw.
JobA ==
    \E fail \in BOOLEAN :
        LET j == Head(jobs)
            r == IF cap.encoder
                 THEN EncStop(enc, settings, j.auto, fail)
                 ELSE [Eff(enc) EXCEPT !.threw = TRUE]
        IN /\ jobs # <<>>
           /\ j.k = "A"
           /\ enc' = r.enc
           /\ jobs' = IF r.threw \/ r.promise
                      THEN Tail(jobs)
                      ELSE Append(Tail(jobs), Job("B", j.auto))
           /\ last' = Ran("job", "A", r.threw, r.err,
                          IF cap.encoder THEN <<Called("stop", None)>> ELSE <<>>)
           /\ UNCHANGED <<settings, env, now, cap, conv, reads, nextId, capt,
                          adds, started, delivered, auto, stopDone>>
           /\ hist' = After(hist, last')

\* The second then() of stop(): the promise stop() returned resolves.
JobB ==
    LET j == Head(jobs)
    IN /\ jobs # <<>>
       /\ j.k = "B"
       /\ jobs' = IF j.auto THEN Append(Tail(jobs), Job("S", TRUE)) ELSE Tail(jobs)
       /\ stopDone' = (stopDone \/ ~j.auto)
       /\ last' = Ran("job", "B", FALSE, FALSE, <<>>)
       /\ UNCHANGED <<settings, env, now, cap, enc, conv, reads, nextId, capt,
                      adds, started, delivered, auto>>
       /\ hist' = After(hist, last')

\* then(() => this.save()) of capture: save() without a callback.
JobS ==
    \E fail \in BOOLEAN :
        LET j == Head(jobs)
            r == IF SaveThrows(cap)
                 THEN [Eff(enc) EXCEPT !.threw = TRUE]
                 ELSE EncSave(enc, settings, NoCallback, fail)
        IN /\ jobs # <<>>
           /\ j.k = "S"
           /\ jobs' = Tail(jobs)
           /\ enc' = r.enc
           /\ delivered' = delivered \o r.out
           /\ auto' = [auto EXCEPT !.saves = @ + (IF SaveThrows(cap) THEN 0 ELSE 1)]
           /\ last' = Ran("job", "S", r.threw, r.err,
                          IF SaveThrows(cap) THEN <<>>
                          ELSE <<Called("save", NoCallback)>>)
           /\ UNCHANGED <<settings, env, now, cap, conv, reads, nextId, capt,
                          adds, started, stopDone>>
           /\ hist' = After(hist, last')

\* BlobReady that goes on to read the blob it did not get.
BlobReady_ReadsAnyway ==
    \E id \in conv, ok \in BOOLEAN :
        /\ jobs = <<>>
        /\ conv' = conv \ {id}
        /\ reads' = reads \cup {id}
        /\ last' = Ran("toBlob", id, FALSE, ~ok, <<>>)
        /\ UNCHANGED <<settings, env, now, cap, enc, jobs, nextId, capt, adds,
                       started, delivered, auto, stopDone>>
        /\ hist' = After(hist, last')

\* The callback of canvas.toBlob: no blob -> error event; else add(blob) of
\* the archive encoder, which begins to read the blob.
BlobReady ==
    \E id \in conv, ok \in BOOLEAN :
        /\ jobs = <<>>
        /\ conv' = conv \ {id}
        /\ reads' = IF ok THEN reads \cup {id} ELSE reads
        /\ last' = Ran("toBlob", id, FALSE, ~ok, <<>>)
        /\ UNCHANGED <<settings, env, now, cap, enc, jobs, nextId, capt, adds,
                       started, delivered, auto, stopDone>>
        /\ hist' = After(hist, last')

\* fileReader.onload
ReadDone ==
    \E id \in reads :
        LET r == TarOnload(enc, settings, env, id)
        IN /\ jobs = <<>>
           /\ reads' = reads \ {id}
           /\ enc' = r.enc
           /\ delivered' = delivered \o r.out
           /\ last' = Ran("onload", id, r.threw, r.err, <<>>)
           /\ UNCHANGED <<settings, env, now, cap, jobs, conv, nextId, capt,
                          adds, started, auto, stopDone>>
           /\ hist' = After(hist, last')

\* fileReader.onerror
ReadError ==
    \E id \in reads :
        /\ jobs = <<>>
        /\ reads' = reads \ {id}
        /\ last' = Ran("onerror", id, FALSE, TRUE, <<>>)
        /\ UNCHANGED <<settings, env, now, cap, enc, jobs, conv, nextId, capt,
                       adds, started, delivered, auto, stopDone>>
        /\ hist' = After(hist, last')

\* recorder.ondataavailable with a chunk of data, of the recorder in use or
\* of one that start() replaced: the handler pushes to this.chunks.
RecData ==
    /\ jobs = <<>>
    /\ settings.format = "webm-mediarecorder"
    /\ \/ enc.recorder.live /\ enc.recorder.state = "recording"
       \/ enc.lostRecorder
    /\ Len(enc.chunks) < MaxChunks
    /\ enc' = [enc EXCEPT !.chunks = Append(@, Len(@) + 1)]
    /\ last' = Ran("ondataavailable", None, FALSE, FALSE, <<>>)
    /\ UNCHANGED <<settings, env, now, cap, jobs, conv, reads, nextId, capt,
                   adds, started, delivered, auto, stopDone>>
    /\ hist' = After(hist, last')

\* The recorder has stopped: the last chunk, then recorder.onstop, which calls
\* requestData() (it throws on an inactive recorder where the platform says
\* so: fail), emits stop and resolves the promise of stop().
RecStopped ==
    \E fail \in BOOLEAN :
        LET h == enc.recorder.onstop
            resolves == h.set /\ ~fail /\ ~h.rejected
        IN /\ jobs = <<>>
           /\ settings.format = "webm-mediarecorder"
           /\ enc.recorder.live /\ enc.recorder.stopping
           /\ enc' = [enc EXCEPT !.recorder.stopping = FALSE,
                                 !.chunks = Append(@, Len(@) + 1),
                                 !.unresolved = IF resolves THEN @ - 1 ELSE @]
           /\ jobs' = IF resolves THEN <<Job("B", h.auto)>> ELSE <<>>
           /\ last' = Ran("onstop", None, h.set /\ fail, FALSE, <<>>)
           /\ UNCHANGED <<settings, env, now, cap, conv, reads, nextId, capt,
                          adds, started, delivered, auto, stopDone>>
           /\ hist' = After(hist, last')

\* The stop event of a recorder that start() replaced after its stop(): the
\* last chunk, then its onstop, which calls requestData() of the recorder in
\* use now.
RecLateStopped ==
    /\ settings.format = "webm-mediarecorder"
    /\ \E h \in enc.late, fail \in BOOLEAN :
        LET throws == enc.recorder.state = "inactive" /\ fail
            resolves == ~throws /\ ~h.rejected
        IN /\ jobs = <<>>
           /\ enc' = [enc EXCEPT !.late = @ \ {h},
                                 !.chunks = Append(@, Len(@) + 1),
                                 !.unresolved = IF resolves THEN @ - 1 ELSE @]
           /\ jobs' = IF resolves THEN <<Job("B", h.auto)>> ELSE <<>>
           /\ last' = Ran("lateonstop", None, throws, FALSE, <<>>)
           /\ UNCHANGED <<settings, env, now, cap, conv, reads, nextId, capt,
                          adds, started, delivered, auto, stopDone>>
           /\ hist' = After(hist, last')

\* The finished event of the GIF object in use.
GifDone ==
    LET r == GifFinished(enc, enc.encoder)
    IN /\ jobs = <<>>
       /\ settings.format = "gif"
       /\ enc.encoder.live /\ enc.encoder.running
       /\ enc' = [r.enc EXCEPT !.encoder.running = FALSE]
       /\ delivered' = delivered \o r.out
       /\ last' = Ran("finished", None, r.threw, r.err, <<>>)
       /\ UNCHANGED <<settings, env, now, cap, jobs, conv, reads, nextId, capt,
                      adds, started, auto, stopDone>>
       /\ hist' = After(hist, last')

\* The finished event of a GIF object that start() replaced while it rendered.
GifOrphanDone ==
    /\ jobs = <<>>
    /\ settings.format = "gif"
    /\ \E g \in enc.orphans :
        LET r == GifFinished(enc, g)
        IN /\ enc' = [r.enc EXCEPT !.orphans = @ \ {g}]
           /\ delivered' = delivered \o r.out
           /\ last' = Ran("finished", None, r.threw, r.err, <<>>)
    /\ UNCHANGED <<settings, env, now, cap, jobs, conv, reads, nextId, capt,
                   adds, started, auto, stopDone>>
    /\ hist' = After(hist, last')

Next ==
    \/ Start
    \/ Capture
    \/ Stop
    \/ Save
    \/ Dispose
    \/ JobA
    \/ JobB
    \/ JobS
    \/ BlobReady
    \/ ReadDone
    \/ ReadError
    \/ RecData
    \/ RecStopped
    \/ RecLateStopped
    \/ GifDone
    \/ GifOrphanDone

Spec == Init /\ [][Next]_vars

\* ------------------------------------------------------- DCFrameEncoder
\* The event plumbing of the base encoder, on its own: an encoder whose
\* eventListeners object the caller fills with on() and fires with emit().
EventKinds == {"progress", "error", "constructor"}

\* The names every object inherits from Object.prototype (of EventKinds).
ObjectPrototype == {"constructor"}

EventHandlers == {"h1", "h2"}

Payloads == {"p", "q"}

\* this.eventListeners = {}: no own property.
NoListeners == [k \in EventKinds |-> [has |-> FALSE, list |-> <<>>]]

\* obj[k]: the own property, else the inherited one, else undefined.
Lookup(obj, k) ==
    IF obj[k].has
    THEN [is |-> "array", list |-> obj[k].list]
    ELSE IF k \in ObjectPrototype
         THEN [is |-> "function", list |-> <<>>]
         ELSE [is |-> "undefined", list |-> <<>>]

\* on(event, callback): if (!listeners[event]) listeners[event] = [];
\* listeners[event].push(callback).  A function has no push: TypeError.
on(obj, event, callback) ==
    LET o1 == IF Lookup(obj, event).is = "undefined"
              THEN [obj EXCEPT ![event] = [has |-> TRUE, list |-> <<>>]]
              ELSE obj
    IN IF Lookup(o1, event).is = "array"
       THEN [obj |-> [o1 EXCEPT ![event].list = Append(@, callback)],
             threw |-> FALSE, calls |-> <<>>]
       ELSE [obj |-> o1, threw |-> TRUE, calls |-> <<>>]

\* emit(event, data): if (listeners[event]) listeners[event].forEach(cb =>
\* cb(data)).  A function has no forEach: TypeError.
emit(obj, event, data) ==
    LET v == Lookup(obj, event)
    IN IF v.is = "undefined"
       THEN [obj |-> obj, threw |-> FALSE, calls |-> <<>>]
       ELSE IF v.is = "array"
            THEN [obj |-> obj, threw |-> FALSE,
                  calls |-> [i \in 1..Len(v.list) |-> Called(v.list[i], data)]]
            ELSE [obj |-> obj, threw |-> TRUE, calls |-> <<>>]

\* new DCFrameEncoder(settings); hist is the list of the on() calls made.
InitEmitter ==
    /\ settings = [format |-> "png", framerate |-> 1, motionBlurFrames |-> 0,
                   timeLimit |-> 0, frameLimit |-> 0, autoSaveTime |-> 0]
    /\ env = [lib |-> TRUE, download |-> TRUE]
    /\ now = ClockBase
    /\ cap = [startTime |-> 0, frames |-> 0, stopped |-> FALSE, encoder |-> TRUE]
    /\ enc = [state |-> "idle", eventListeners |-> NoListeners]
    /\ hist = <<>>
    /\ jobs = <<>>
    /\ conv = {}
    /\ reads = {}
    /\ last = Ran("new", None, FALSE, FALSE, <<>>)
    /\ nextId = 0
    /\ capt = <<>>
    /\ adds = <<>>
    /\ started = FALSE
    /\ delivered = <<>>
    /\ auto = [stops |-> 0, saves |-> 0]
    /\ stopDone = FALSE

Idle == <<settings, env, now, cap, jobs, conv, reads, nextId, capt, adds,
          started, delivered, auto, stopDone>>

\* encoder.on(event, callback)
On ==
    \E k \in EventKinds, h \in EventHandlers :
        LET r == on(enc.eventListeners, k, h)
        IN /\ Len(hist) < MaxHandlers
           /\ enc' = [enc EXCEPT !.eventListeners = r.obj]
           /\ hist' = Append(hist, [kind |-> k, handler |-> h])
           /\ last' = Ran("on", [kind |-> k, data |-> h], r.threw, FALSE, r.calls)
           /\ UNCHANGED Idle

\* encoder.emit(event, data)
Emit ==
    \E k \in EventKinds, d \in Payloads :
        LET r == emit(enc.eventListeners, k, d)
        IN /\ enc' = [enc EXCEPT !.eventListeners = r.obj]
           /\ last' = Ran("emit", [kind |-> k, data |-> d], r.threw, FALSE, r.calls)
           /\ UNCHANGED hist
           /\ UNCHANGED Idle

\* The base dispose(): this.eventListeners = {}
BaseDispose ==
    /\ enc' = [enc EXCEPT !.eventListeners = NoListeners]
    /\ hist' = <<>>
    /\ last' = Ran("dispose", None, FALSE, FALSE, <<>>)
    /\ UNCHANGED Idle

NextEmitter ==
    \/ On
    \/ Emit
    \/ BaseDispose

EmitterSpec == InitEmitter /\ [][NextEmitter]_vars

\* ------------------------------------------------------- DCTarEncoder alone
\* The archive encoder on its own, called as its adapters call it: start(),
\* add(blob), save(callback), dispose() and the callbacks of its FileReaders.
\* nextId counts the blobs given to add(); a blob carries its number.
ArchiveSettings ==
    [format : {AutoSaveFormat}, framerate : {1, 2}, motionBlurFrames : {0},
     timeLimit : {0}, frameLimit : {0}, autoSaveTime : {0, 1}]

InitArchive ==
    /\ settings \in ArchiveSettings
    /\ env \in EnvSpace
    /\ settings.autoSaveTime = 0 => env.download
    /\ now = ClockBase
    /\ cap = [startTime |-> 0, frames |-> 0, stopped |-> FALSE, encoder |-> TRUE]
    /\ enc = TarInit
    /\ hist = [phase |-> "new", failed |-> FALSE, overlap |-> FALSE]
    /\ jobs = <<>>
    /\ conv = {}
    /\ reads = {}
    /\ last = Ran("new", None, FALSE, FALSE, <<>>)
    /\ nextId = 0
    /\ capt = <<>>
    /\ adds = <<>>
    /\ started = FALSE
    /\ delivered = <<>>
    /\ auto = [stops |-> 0, saves |-> 0]
    /\ stopDone = FALSE

\* What the archive encoder's own methods leave alone.
Aside == <<settings, env, now, cap, jobs, conv, capt, started, auto, stopDone,
           hist>>

\* encoder.start()
ArchiveStart ==
    LET r == TarStart(enc, env)
    IN /\ enc' = r.enc
       /\ adds' = <<>>
       /\ last' = Ran("start", None, r.threw, r.err, <<>>)
       /\ UNCHANGED <<reads, nextId, delivered>>
       /\ UNCHANGED Aside

\* encoder.add(blob): a FileReader begins to read the blob.
ArchiveAdd ==
    /\ nextId < MaxBlobs
    /\ Cardinality(reads) < MaxReading
    /\ nextId' = nextId + 1
    /\ reads' = reads \cup {nextId + 1}
    /\ adds' = Append(adds, nextId + 1)
    /\ last' = Ran("add", nextId + 1, FALSE, FALSE, <<>>)
    /\ UNCHANGED <<enc, delivered>>
    /\ UNCHANGED Aside

\* encoder.save(callback)
ArchiveSave ==
    \E cb \in Callbacks :
        LET r == TarSave(enc, cb)
        IN /\ Len(ToCaller(delivered)) < MaxDelivered
           /\ enc' = r.enc
           /\ delivered' = delivered \o r.out
           /\ last' = Ran("save", cb, r.threw, r.err, <<>>)
           /\ UNCHANGED <<reads, nextId, adds>>
           /\ UNCHANGED Aside

\* encoder.dispose()
ArchiveDispose ==
    LET r == TarDispose(enc, env)
    IN /\ enc' = r.enc
       /\ last' = Ran("dispose", None, r.threw, r.err, <<>>)
       /\ UNCHANGED <<reads, nextId, adds, delivered>>
       /\ UNCHANGED Aside

NextArchive ==
    \/ ArchiveStart
    \/ ArchiveAdd
    \/ ArchiveSave
    \/ ArchiveDispose
    \/ ReadDone
    \/ ReadError

ArchiveSpec == InitArchive /\ [][NextArchive]_vars

\* ------------------------------------------------------------------ claims
\* The session has been started, has its encoder, and is not stopped.
Recording == started /\ cap.encoder /\ ~cap.stopped

\* The time since start(), at the last call, has reached the time limit.
Elapsed == DateNow(now) - cap.startTime >= settings.timeLimit * MsPerSecond

\* The call that ran last was a capture() that was not ignored.
Captured == last.op = "capture" /\ last.calls # <<>>

\* C1: in a started, not stopped session without limits, after N capture
\* calls the frame counter is N and encoder.add has been called N times, with
\* the frames in the order of the calls.
C1_FramesCountCalls ==
    (Recording /\ settings.timeLimit = 0 /\ settings.frameLimit = 0)
        => (cap.frames = Len(capt) /\ adds = capt)

C1_Witness ==
    /\ Recording
    /\ settings.timeLimit = 0 /\ settings.frameLimit = 0
    /\ Len(capt) >= 2
    /\ last.op = "capture"

\* C2: with frameLimit = F > 0, whatever the other settings, the session is
\* stopped once F frames have been captured since start(), and encoder.add is
\* never called more than F times.
C2_FrameLimitStops ==
    (started /\ settings.frameLimit > 0)
        => /\ Len(adds) >= settings.frameLimit => cap.stopped
           /\ Len(adds) <= settings.frameLimit

\* C3: with timeLimit = T > 0 and frameLimit = 0, a capture call made when the
\* time since start() is at least T leaves the session stopped, and a capture
\* call stops the session only then.
C3_TimeLimitStops ==
    (started /\ cap.encoder /\ settings.timeLimit > 0 /\ settings.frameLimit = 0)
        => /\ (last.op = "capture" /\ Elapsed) => cap.stopped
           /\ (Captured /\ cap.stopped) => Elapsed

\* C4: a capture call that breaches a limit (or both) makes one automatic
\* stop and one call of the encoder's save.
C4_OneStopOneSave == started => (auto.stops <= 1 /\ auto.saves <= 1)

\* C5: once the session is stopped, a capture call changes nothing: not the
\* frame counter, not the encoder (add is not called), and no stop or save
\* begins.
C5_StoppedCaptureIsNoOp ==
    [][(cap.stopped /\ last'.op = "capture")
          => /\ last'.calls = <<>>
             /\ ~last'.threw
             /\ UNCHANGED <<cap, enc, adds, jobs, conv, reads, auto, delivered>>]_vars

C5_Witness ==
    /\ cap.stopped /\ started /\ cap.encoder
    /\ auto.stops = 1
    /\ last.op = "capture"
    /\ Len(adds) < Len(capt)

\* C6: a save called after the promise of stop() has resolved finds no frame
\* still on its way inside the encoder (no conversion or read unfinished, no
\* last chunk outstanding).
C6_SaveAfterStopIsComplete ==
    (last.op = "save" /\ stopDone /\ started /\ cap.encoder)
        => /\ conv = {} /\ reads = {}
           /\ settings.format = "webm-mediarecorder" => ~enc.recorder.stopping

\* C7: save(cb) on a session just constructed, never started, emits an error
\* event, does not throw and does not call cb.
C7_SaveBeforeStartReports ==
    (last.op = "save" /\ ~started /\ nextId = 0 /\ ~cap.stopped /\ cap.encoder)
        => (last.err /\ ~last.threw /\ delivered = <<>>)

\* C8: save(cb) without an encoder throws, calls nothing and changes nothing;
\* with an encoder it calls the encoder's save once, with cb, and does what
\* that call does.
C8_SaveDelegates ==
    [][last'.op = "save"
          => IF ~cap.encoder
             THEN /\ last'.threw
                  /\ last'.calls = <<>>
                  /\ UNCHANGED <<cap, enc, jobs, conv, reads, delivered, adds,
                                 auto, stopDone>>
             ELSE /\ last'.calls = <<Called("save", last'.arg)>>
                  /\ \E fail \in BOOLEAN :
                        LET r == EncSave(enc, settings, last'.arg, fail)
                        IN /\ enc' = r.enc
                           /\ delivered' = delivered \o r.out
                           /\ last'.threw = r.threw
                  /\ UNCHANGED <<cap, jobs, conv, reads, adds, auto, stopDone>>]_vars

C8_Witness ==
    /\ last.op = "save" /\ last.arg = "cb"
    /\ ~cap.encoder
    /\ last.threw
    /\ started

\* C9: while the session has an encoder a capture call does not throw,
\* whatever the state of the encoder; a failure in the encoder shows as an
\* error event.
C9_CaptureNeverThrows ==
    (last.op = "capture" /\ cap.encoder) => ~last.threw

C9_Witness ==
    /\ last.op = "capture" /\ cap.encoder
    /\ last.err /\ ~last.threw
    /\ last.calls # <<>>

\* C10: after dispose(), start, capture, stop and save each throw when called.
C10_DisposedThrows ==
    (~cap.encoder /\ last.op \in {"start", "capture", "stop", "save"})
        => last.threw

\* The caller made the round trip start, capture (any number), stop, save(cb)
\* and nothing else, and no handler threw or reported an error.
RoundTrip == hist.phase = "saved" /\ ~hist.failed

\* C11: with the GIF encoder, after start, any number of frames, stop and one
\* save(cb), cb is never called more than once, and once the rendering has
\* finished cb has been called exactly once with the blob, whether save came
\* before the finished event or after it.
C11_GifSaveDeliversOnce ==
    (settings.format = "gif" /\ RoundTrip)
        => /\ Len(delivered) <= 1
           /\ enc.savedBlob.set
                => /\ Len(delivered) = 1
                   /\ delivered[1] = Handed("cb", enc.savedBlob.frames)

C11_Witness ==
    /\ settings.format = "gif" /\ RoundTrip
    /\ last.op = "finished"
    /\ Len(adds) >= 1
    /\ Len(delivered) = 1

\* The number a name of decimal digits stands for.
Number(digits) ==
    LET RECURSIVE N(_)
        N(k) == IF k = 0 THEN 0 ELSE 10 * N(k - 1) + digits[k]
    IN N(Len(digits))

\* The archives of the session: the parts handed over and the tape in use.
Archives ==
    {enc.tape.files} \cup {delivered[i].art : i \in 1..Len(delivered)}

\* C12: in every archive part the names have 6 digits and each name is the
\* number after the name before it, however the reads complete and whatever
\* frames were dropped.
C12_NamesConsecutive ==
    settings.format \in TarFormats
        => \A files \in Archives : \A i \in 1..Len(files) :
              /\ Len(files[i].name) = 6
              /\ i > 1 => Number(files[i].name) = Number(files[i - 1].name) + 1

C12_Witness ==
    /\ settings.format \in TarFormats
    /\ Len(enc.tape.files) = 1
    /\ \E i \in 1..Len(delivered) :
          /\ delivered[i].to = "download"
          /\ Len(delivered[i].art) = 2
          /\ delivered[i].art[1].data > delivered[i].art[2].data

\* Nothing is on its way: no promise job, conversion, read, render or stop
\* event is outstanding.
Quiet ==
    /\ jobs = <<>> /\ conv = {} /\ reads = {}
    /\ settings.format = "gif" => ~enc.encoder.running
    /\ settings.format = "webm-mediarecorder" => ~enc.recorder.stopping

\* ceil(a / b)
Ceil(a, b) == (a + b - 1) \div b

\* The artifacts the round trip is to yield for K captured frames.
Expected(K) ==
    IF settings.autoSaveTime = 0
    THEN 1
    ELSE Ceil(K, settings.autoSaveTime * settings.framerate)

\* C13: start, K >= 1 captured frames, stop and one save(cb), called when
\* every frame has gone through, yield one artifact without auto-save, and
\* ceil((K / framerate) / autoSaveTime) artifacts (parts downloaded plus the
\* final save) with auto-save.
C13_RoundTripArtifacts ==
    (RoundTrip /\ last.op = "save" /\ Len(adds) >= 1 /\ Quiet)
        => Len(SelectSeq(delivered, LAMBDA a : a.to # Dropped))
              = Expected(Len(adds))

\* start() was called once, before any capture, and since then only capture,
\* stop and save(cb), in this order; no handler threw or reported an error.
OnTrip == hist.phase \in {"started", "stopped", "saved"} /\ ~hist.failed

\* C14: with format png and no auto-save, once every conversion and read of
\* the K frames captured since start() has completed, the archive holds K
\* entries, named 000000.png up to the padding of K - 1.
C14_PngArchiveHoldsFrames ==
    (settings.format = "png" /\ settings.autoSaveTime = 0 /\ OnTrip
            /\ conv = {} /\ reads = {})
        => /\ Len(enc.tape.files) = Len(adds)
           /\ \A i \in 1..Len(adds) :
                /\ Len(enc.tape.files[i].name) = 6
                /\ Number(enc.tape.files[i].name) = i - 1
                /\ enc.tape.files[i].ext = ".png"

C14_Witness ==
    /\ settings.format = "png" /\ settings.autoSaveTime = 0 /\ OnTrip
    /\ conv = {} /\ reads = {}
    /\ Len(adds) = 2
    /\ last.op = "onload"
    /\ enc.tape.files[2].name = <<0, 0, 0, 0, 0, 1>>

\* C15: a session whose backend is missing is constructed without a throw,
\* reports the missing backend as an error event (start() at the latest), and
\* its start and capture calls do not throw.
C15_MissingBackendReports ==
    ~env.lib
        => /\ last.op = "new" => ~last.threw
           /\ (last.op = "start" /\ cap.encoder) => (last.err /\ ~last.threw)
           /\ (last.op = "capture" /\ cap.encoder) => ~last.threw

\* The handlers the on() calls so far gave for the kind k, in their order.
Registered(k) ==
    LET r == SelectSeq(hist, LAMBDA c : c.kind = k)
    IN [i \in 1..Len(r) |-> r[i].handler]

\* C16: emit(kind, payload) does not fail and changes no registration; it
\* calls the handlers given to on(kind, ...) once each, in the order of the
\* on() calls, with the payload, and no other handler (none when no handler
\* was registered for the kind).
C16_EmitCallsRegistered ==
    [][last'.op = "emit"
          => /\ ~last'.threw
             /\ enc' = enc
             /\ last'.calls = [i \in 1..Len(Registered(last'.arg.kind)) |->
                                 Called(Registered(last'.arg.kind)[i],
                                        last'.arg.data)]]_vars

\* C17: no operation of the session or of its encoder (start, capture, stop,
\* save, dispose, the promise jobs and callbacks, the auto-save rotation)
\* changes a field of the settings.
C17_SettingsReadOnly == [][settings' = settings]_vars

C17_Witness ==
    /\ settings.autoSaveTime > 0
    /\ hist.phase = "saved"
    /\ \E i \in 1..Len(delivered) : delivered[i].to = "download"
    /\ \E i \in 1..Len(delivered) : delivered[i].to = "cb"

\* C18: start() resets the state of the session: when it returns the frame
\* counter is 0 and the session is not stopped, so that the frames captured
\* after it are forwarded.
C18_StartResets ==
    (last.op = "start" /\ cap.encoder) => (cap.frames = 0 /\ ~cap.stopped)

\* The settings of the same session without motion blur.
Plain == [settings EXCEPT !.motionBlurFrames = 0]

\* C19: with motionBlurFrames > 1 a capture call does to the frame counter,
\* to the frames forwarded and to the stop conditions (the automatic stops
\* and saves it begins) what the same call does, from the same state, in the
\* session configured with motionBlurFrames = 0.
C19_MotionBlurPassThrough ==
    [][(started /\ last'.op = "capture" /\ settings.motionBlurFrames > 1)
          => IF CaptureIgnored(cap) \/ CaptureThrows(cap)
             THEN UNCHANGED <<cap, adds, jobs, auto>>
             ELSE LET chains == StopsOfCapture(Counted(cap), Plain, now')
                  IN /\ cap'.frames = cap.frames + 1
                     /\ adds' = Append(adds, last'.arg)
                     /\ jobs' = jobs \o chains
                     /\ cap'.stopped = (chains # <<>>)
                     /\ auto'.stops = auto.stops + Len(chains)]_vars

\* C20: once the native recorder has confirmed that it stopped and the onstop
\* handler has run, every promise a stop() of the recording adapter returned
\* has resolved, also when stop() was called more than once.
C20_EveryStopResolves ==
    (settings.format = "webm-mediarecorder" /\ started
            /\ last.op = "onstop" /\ ~last.threw)
        => enc.unresolved = 0

\* C21: save(cb) of the recording adapter, when the chunk buffer is empty (no
\* chunk came since the start() that began the recording), emits an error
\* event and does not call cb; else it calls cb once, with one artifact made
\* of the buffered chunks in their order, and leaves the buffer as it was.
C21_RecSaveChunks ==
    [][(settings.format = "webm-mediarecorder" /\ cap.encoder
            /\ last'.op = "save" /\ last'.arg = "cb")
          => IF enc.chunks = <<>>
             THEN last'.err /\ ~last'.threw /\ delivered' = delivered
             ELSE /\ ~last'.err /\ ~last'.threw
                  /\ delivered' = Append(delivered, Handed("cb", enc.chunks))
                  /\ enc'.chunks = enc.chunks]_vars

C21_Witness ==
    /\ settings.format = "webm-mediarecorder" /\ cap.encoder
    /\ last.op = "save" /\ last.arg = "cb"
    /\ Len(delivered) = 1
    /\ delivered[1].art = <<1, 2>>
    /\ enc.chunks = <<1, 2>>

\* C22: save of the archive encoder, with or without a callback, does not
\* throw: without an archive it emits an error event and hands nothing over,
\* with an archive it hands the serialized archive over once.
C22_TarSaveNeverThrows ==
    [][(settings.format \in TarFormats /\ cap.encoder /\ last'.op = "save")
          => /\ ~last'.threw
             /\ IF enc.tape.live
                THEN delivered' = Append(delivered,
                                         Handed(last'.arg, enc.tape.files))
                ELSE last'.err /\ delivered' = delivered]_vars

\* C23: in the PNG and JPEG adapters, a conversion that yields no blob emits
\* an error event and drops the frame: the encoder (archive, name counter,
\* frame counter of the part) is left as it was, no read of the frame begins,
\* and the conversion is not begun again.
C23_NoBlobDropsFrame ==
    [][(settings.format \in TarFormats /\ last'.op = "toBlob" /\ last'.err)
          => /\ ~last'.threw
             /\ enc' = enc
             /\ reads' = reads
             /\ conv' = conv \ {last'.arg}
             /\ delivered' = delivered]_vars

C23_Witness ==
    /\ settings.format = "jpg"
    /\ last.op = "toBlob" /\ last.err
    /\ Len(enc.tape.files) = 1 /\ enc.count = 1 /\ enc.frames = 1
    /\ Len(adds) = 2
    /\ conv = {} /\ reads = {}

\* The parts the rotation serialized so far, in their order.
Parts == SelectSeq(delivered, LAMBDA a : a.to \in {"download", Dropped})

\* The entries of a sequence of artifacts, one after the other.
Flat(ps) ==
    LET RECURSIVE F(_)
        F(k) == IF k = 0 THEN <<>> ELSE F(k - 1) \o ps[k].art
    IN F(Len(ps))

\* The entries the rotated parts and the archive in use hold.
Held == Flat(Parts) \o enc.tape.files

\* C24: whatever the order in which the reads complete, the completion of a
\* read adds its entry once to what the rotated parts and the archive in use
\* hold together and moves no other entry: the rotation it may trigger takes
\* every entry of the archive into the part it serializes and leaves none
\* behind, so no entry is in two parts and none is lost by the rotation.
C24_RotationKeepsEntries ==
    [][(settings.format \in TarFormats /\ last'.op = "onload" /\ ~last'.threw)
          => /\ Len(Held') = Len(Held) + 1
             /\ \A i \in 1..Len(Held) : Held'[i] = Held[i]
             /\ Held'[Len(Held')].data = last'.arg
             /\ \A i \in 1..Len(Held) : Held[i].data # last'.arg]_vars

C24_Witness ==
    /\ settings.format \in TarFormats
    /\ last.op = "onload"
    /\ Len(Parts) = 2 /\ enc.tape.files = <<>>
    /\ Len(Held) = 4
    /\ Held[1].data = 2 /\ Held[2].data = 1
    /\ Held[3].data = 4 /\ Held[4].data = 3

\* C25: with autoSaveTime > 0, the completion of a read triggers a rotation
\* exactly when the part, with the entry just appended, holds at least
\* framerate x autoSaveTime entries; no rotated part holds more than that.
C25_RotationWhenDue ==
    [][(settings.format \in TarFormats /\ settings.autoSaveTime > 0
            /\ last'.op = "onload" /\ ~last'.threw)
          => /\ (enc'.part # enc.part)
                    <=> (Len(enc.tape.files) + 1
                            >= settings.framerate * settings.autoSaveTime)
             /\ \A i \in 1..Len(Parts') :
                    Len(Parts'[i].art)
                        <= settings.framerate * settings.autoSaveTime]_vars

\* The parts handed to download(), in their order.
Downloads == SelectSeq(delivered, LAMBDA a : a.to = "download")

\* C26: a rotation hands one artifact to download(), the part with the number
\* the encoder had, and leaves an empty archive, the frame counter of the part
\* at 0 and the part number one higher; the parts handed over are numbered 1,
\* 2, 3, ... in their order.  This with and without a download function.
C26_RotationDeliversPart ==
    [][(settings.format \in TarFormats /\ last'.op = "onload"
            /\ enc'.part # enc.part)
          => /\ enc'.part = enc.part + 1
             /\ enc'.tape = NewTar
             /\ enc'.frames = 0
             /\ Len(Downloads') = Len(Downloads) + 1
             /\ \A i \in 1..Len(Downloads') : Downloads'[i].part = i]_vars

\* C27: when start() of the archive encoder returns (a Tar backend being
\* there), whatever came before it, the archive is empty, the name counter is
\* 0, the frame counter of the part is 0 and the part number is 1.
C27_TarStartDiscards ==
    (settings.format \in TarFormats /\ last.op = "start"
            /\ ~last.threw /\ ~last.err)
        => /\ enc.tape = NewTar
           /\ enc.count = 0
           /\ enc.frames = 0
           /\ enc.part = 1

\* add() sizes the recording canvas to the input frame: it runs with a
\* recorder and finds this.firstFrame set (DCMediaRecorderEncoder.js:103-107).
AddSizes(e) == e.supported /\ e.recorder.live /\ e.firstFrame

\* C28: in the recording adapter, the add that follows a start() that went
\* well sizes the recording canvas (a new one, made by that start()) to the
\* input frame, also when the adapter was given frames before that start()
\* and was not disposed of since.
C28_FirstAddSizes ==
    [][(settings.format = "webm-mediarecorder" /\ cap.encoder
            /\ last.op = "start" /\ ~last.err /\ ~last.threw
            /\ last'.op = "capture" /\ last'.calls # <<>>)
          => AddSizes(enc)]_vars

\* C29: on a platform without MediaRecorder the recording adapter never
\* leaves the state its constructor left it in (no recorder, no stream, no
\* chunk), whatever is called: start() emits an error event, add and stop do
\* nothing, and save emits an error event and hands nothing over.
C29_UnsupportedIsTerminal ==
    (settings.format = "webm-mediarecorder" /\ ~env.lib)
        => /\ enc = RecInit(env)
           /\ ~enc.recorder.live /\ ~enc.stream
           /\ delivered = <<>>
           /\ (cap.encoder /\ last.op = "start") => (last.err /\ ~last.threw)
           /\ (cap.encoder /\ last.op = "save") => (last.err /\ ~last.threw)
           /\ (cap.encoder /\ last.op \in {"capture", "job"}) => ~last.threw

C29_Witness ==
    /\ settings.format = "webm-mediarecorder" /\ ~env.lib
    /\ hist.phase = "saved"
    /\ Len(adds) = 2
    /\ last.op = "save" /\ last.arg = "cb" /\ last.err
    /\ stopDone

\* C30: when dispose() of the recording adapter returns, whatever start, add
\* and stop calls came before it, no recorder the adapter created is still
\* recording and no stream it created still has running tracks.
C30_DisposeReleasesAll ==
    (settings.format = "webm-mediarecorder"
            /\ last.op = "dispose" /\ last.calls # <<>>)
        => /\ ~(enc.recorder.live /\ enc.recorder.state = "recording")
           /\ ~enc.stream
           /\ ~enc.lostRecorder
           /\ ~enc.lostStream

\* emit('error', ...) in the handler l reaches the handler the controller
\* registered: emit() calls what eventListeners holds for the event.
Invoked(e, l) == l.err /\ "error" \in e.eventListeners

\* C31: after the session was disposed of, no later event of its encoder
\* invokes a handler that was registered before the dispose(): the
\* controller's error handler is not called again.
C31_DisposeUnsubscribes ==
    (~cap.encoder /\ last.op \notin {"new", "dispose"}) => ~Invoked(enc, last)

\* C32: start(callback) with a function calls it exactly once before it
\* returns, after encoder.start() and with the frame counter at 0, also when
\* encoder.start() emitted an error event.
C32_StartCallsBack ==
    (cap.encoder /\ last.op = "start" /\ last.arg = "cb")
        => /\ ~last.threw
           /\ last.calls = <<Called("start", None), Called("callback", "cb")>>
           /\ cap.frames = 0

C32_Witness ==
    /\ cap.encoder /\ last.op = "start" /\ last.arg = "cb"
    /\ last.err
    /\ last.calls = <<Called("start", None), Called("callback", "cb")>>
    /\ hist.phase = "off"

\* C33: no operation of an encoder (start, add, stop, save, dispose) and no
\* asynchronous completion handler of one throws, whatever the state of the
\* encoder: failures are error events.
C33_NothingEscapes ==
    (last.calls # <<>>
        \/ last.op \in {"toBlob", "onload", "onerror", "ondataavailable",
                        "onstop", "lateonstop", "finished"})
        => ~last.threw

\* C34: in the archive image adapters, when no frame was added while an
\* earlier one was still being converted or read, the entries of every
\* archive part are named in the order their frames were added; and however
\* the completions interleave, a read that completes appends its entry after
\* the entries of the reads that completed before it, under the next name.
C34_NamesFollowCompletion ==
    settings.format \in TarFormats
        => \A files \in Archives : \A i, j \in 1..Len(files) :
              /\ (hist.phase # "off" /\ ~hist.overlap
                    /\ Number(files[i].name) < Number(files[j].name))
                   => files[i].data < files[j].data
              /\ i < j => Number(files[i].name) < Number(files[j].name)

C34_Witness ==
    /\ settings.format \in TarFormats
    /\ hist.phase = "saved" /\ ~hist.overlap /\ ~hist.failed
    /\ last.op = "save"
    /\ Len(enc.tape.files) = 2
    /\ enc.tape.files[1].data < enc.tape.files[2].data

\* Frames were added while earlier ones were in flight, and an archive holds
\* a later frame under a smaller name than an earlier one.
C34_Interleaved ==
    /\ settings.format \in TarFormats
    /\ hist.phase # "off" /\ hist.overlap
    /\ Len(enc.tape.files) = 2
    /\ enc.tape.files[1].data > enc.tape.files[2].data

\* ------------------------------------------- DCGIFEncoder: the quality
\* The quality the GIF adapter hands to its backend, on an adapter of its
\* own: settings.quality is any integer of 0..100, enc holds this.quality
\* (in hundredths) and the options of the backend start() created.

Percent == 100

\* 0.8, in hundredths.
DefaultGifQuality == 80

NoOptions == [set |-> FALSE, quality |-> 0]

\* Math.round(n / d), d > 0: the integer nearest to n / d, halves upwards.
Round(n, d) == (2 * n + d) \div (2 * d)

\* this.quality = settings.quality / 100 || 0.8, in hundredths: the quotient
\* 0 is falsy and gives way to the default.
GifQuality(st) == IF st.quality = 0 THEN DefaultGifQuality ELSE st.quality

\* quality: Math.round((1 - this.quality) * 100), with this.quality = qh / 100.
GifBackendQuality(qh) == Round((Percent - qh) * Percent, Percent)

\* new DCGIFEncoder(settings)
InitQuality ==
    /\ \E q \in 0..Percent : settings = [format |-> "gif", quality |-> q]
    /\ env = [lib |-> TRUE, download |-> TRUE]
    /\ now = ClockBase
    /\ cap = [startTime |-> 0, frames |-> 0, stopped |-> FALSE, encoder |-> TRUE]
    /\ enc = [quality |-> GifQuality(settings), encoder |-> NoOptions]
    /\ hist = <<>>
    /\ jobs = <<>>
    /\ conv = {}
    /\ reads = {}
    /\ last = Ran("new", None, FALSE, FALSE, <<>>)
    /\ nextId = 0
    /\ capt = <<>>
    /\ adds = <<>>
    /\ started = FALSE
    /\ delivered = <<>>
    /\ auto = [stops |-> 0, saves |-> 0]
    /\ stopDone = FALSE

\* start(): this.encoder = new GIF({quality: ..., ...})
QualityStart ==
    /\ enc' = [enc EXCEPT !.encoder = [set |-> TRUE,
                                       quality |-> GifBackendQuality(enc.quality)]]
    /\ last' = Ran("start", None, FALSE, FALSE, <<>>)
    /\ UNCHANGED hist
    /\ UNCHANGED Idle

\* dispose(): this.encoder = null
QualityDispose ==
    /\ enc' = [enc EXCEPT !.encoder = NoOptions]
    /\ last' = Ran("dispose", None, FALSE, FALSE, <<>>)
    /\ UNCHANGED hist
    /\ UNCHANGED Idle

NextQuality ==
    \/ QualityStart
    \/ QualityDispose

QualitySpec == InitQuality /\ [][NextQuality]_vars

\* C35: for every configured quality q of 0..100 the quality the GIF adapter
\* passes to its backend is 100 - q.
C35_QualityInverted ==
    enc.encoder.set => enc.encoder.quality = Percent - settings.quality

\* The elements of a sequence.
Range(s) == {s[i] : i \in 1..Len(s)}

\* C36: in a GIF session that was started, and whose backend in use holds
\* only frames added after the latest start() (that start() created it), a
\* save hands over only blobs rendered from frames added after the latest
\* start(): a blob rendered before that start() is not delivered.
C36_SaveAfterRestartIsFresh ==
    [][(settings.format = "gif" /\ cap.encoder /\ started
            /\ enc.encoder.live
            /\ Range(enc.encoder.frames) \subseteq Range(adds)
            /\ last'.op = "save" /\ ~last'.threw)
          => \A i \in (Len(delivered) + 1)..Len(delivered') :
                Range(delivered'[i].art) \subseteq Range(adds)]_vars

\* C37: in an archive session that was started, the archive never holds more
\* entries than the controller counted frames since the latest start().
C37_EntriesWithinFrames ==
    (settings.format \in TarFormats /\ cap.encoder /\ started)
        => Len(enc.tape.files) <= cap.frames

\* C38: once an archive session is disposed of, a conversion or a read that
\* completes changes nothing of the encoder, hands nothing over and emits no
\* event.
C38_LateCompletionIsInert ==
    [][(settings.format \in TarFormats /\ ~cap.encoder
            /\ last'.op \in {"toBlob", "onload", "onerror"})
          => /\ enc' = enc
             /\ delivered' = delivered
             /\ ~last'.err]_vars

====
